---- MODULE Spec2Model ----
(***************************************************************************)
(* Model of mqtt_occupancy_monitor.py: the module globals, the three       *)
(* callbacks the MQTT client's network thread invokes (on_connect,         *)
(* on_disconnect, on_message) and the supervisory loop of main(), which    *)
(* runs in the main thread.  The two threads interleave at the level of    *)
(* single reads and writes of the shared globals.                          *)
(*                                                                         *)
(* Durations are counted in half seconds wherever a base backoff delay is  *)
(* stored, because 2 ** (RECONNECT_ATTEMPTS - 1) is 0.5 when the counter   *)
(* is 0.                                                                   *)
(***************************************************************************)
EXTENDS Integers, Sequences, FiniteSets, TLC

VARIABLES
    pc,                     \* position of the main thread in main()
    reconnecting,           \* global reconnecting
    RECONNECT_ATTEMPTS,     \* global RECONNECT_ATTEMPTS
    MAX_RECONNECT_ATTEMPTS, \* global MAX_RECONNECT_ATTEMPTS (configuration)
    last_occupancy_state,   \* global last_occupancy_state
    last_activity_time,     \* global last_activity_time
    tmp,                    \* value loaded by RECONNECT_ATTEMPTS += 1
    delay,                  \* local delay of main(), without jitter, in half seconds
    connected,              \* client.is_connected()
    subscribed,             \* the session holds a subscription to MQTT_TOPIC
    loop_running,           \* the network thread started by loop_start() is alive
    auto_pending,           \* a connect attempt of the network thread awaits its acknowledgement
    manual_pending,         \* a connect attempt of client.reconnect() awaits its acknowledgement
    events,                 \* the occupancy reports printed so far, oldest first
    idle,                   \* seconds since the broker last sent anything
    exit_msg,               \* what main() printed when it left the loop
    readings,               \* the valid readings on_message has handled, oldest first
    heartbeats,             \* messages published to MQTT_HEARTBEAT_TOPIC
    now,                    \* datetime.datetime.now(), in half seconds since the start
    stamps                  \* the timestamps printed with the reports of events

vars == <<pc, reconnecting, RECONNECT_ATTEMPTS, MAX_RECONNECT_ATTEMPTS,
          last_occupancy_state, last_activity_time, tmp, delay, connected,
          subscribed, loop_running, auto_pending, manual_pending, events, idle,
          exit_msg, readings, heartbeats, now, stamps>>

mainVars == <<pc, tmp, delay>>
globalVars == <<reconnecting, RECONNECT_ATTEMPTS, MAX_RECONNECT_ATTEMPTS,
                last_occupancy_state, last_activity_time>>
clientVars == <<connected, subscribed, loop_running, auto_pending, manual_pending>>

----------------------------------------------------------------------------
(* Bounds of the model *)

MaxAttempts == 7
MaxEvents == 3
MaxReadings == 5
MaxClock == 3
TickSeconds == 20

(* Configuration constants of the program *)

HEARTBEAT_INTERVAL == 15
RECONNECT_DELAY_MIN == 1
RECONNECT_DELAY_MAX == 60
MAX_INACTIVE_TIME == 60

\* The module sets MAX_RECONNECT_ATTEMPTS = -1 (DefaultMaxAttempts); the
\* other configurations are 0 and a finite budget.
DefaultMaxAttempts == -1
MaxAttemptsConfigs == {DefaultMaxAttempts, 0, 2}

\* Acknowledgement codes handed to on_connect and reason codes handed to
\* on_disconnect: 0 is success / normal, the others are failures.
ReturnCodes == {0, 5}

Min(a, b) == IF a <= b THEN a ELSE b

RECURSIVE Pow2(_)
Pow2(n) == IF n <= 0 THEN 1 ELSE 2 * Pow2(n - 1)

----------------------------------------------------------------------------
(* Python values of payload['occupancy'], by their literal *)

None == "None"

OccupancyValues == {"True", "False", "None", "1", "'on'"}

\* the numeric value of a bool or int literal (bool is a subclass of int)
PyNumeric(v) == v \in {"True", "False", "1"}
PyNumber(v) == IF v \in {"True", "1"} THEN 1 ELSE 0

\* a != b
PyNotEqual(a, b) ==
    IF PyNumeric(a) /\ PyNumeric(b) THEN PyNumber(a) /= PyNumber(b) ELSE a /= b

\* bool(v)
PyTruthy(v) == v \in {"True", "1", "'on'"}

\* A message payload: bytes that do not decode, text that is not JSON, a
\* JSON value that is not an object, an object without 'occupancy', an
\* object with 'occupancy'.
Payloads ==
    [kind : {"undecodable", "nonjson", "nondict", "noocc"}, occupancy : {"absent"}]
        \cup [kind : {"occ"}, occupancy : OccupancyValues]

Untracked == <<"untracked">>

\* get_timestamp, line 107: strftime("%Y-%m-%d %H:%M:%S") keeps the whole
\* seconds of the clock reading t (t in half seconds)
get_timestamp(t) == t \div 2

\* state_text
StateText(current_state) ==
    IF PyTruthy(current_state) THEN "PRESENCE DETECTED" ELSE "NO PRESENCE"

\* the test of line 96 made only once a state is known
ReportsOnlyKnown(p, last) ==
    p.kind = "occ" /\ last /= None /\ PyNotEqual(p.occupancy, last)

\* whether on_message prints an occupancy report for payload p
Reports(p, last) == p.kind = "occ" /\ PyNotEqual(p.occupancy, last)

----------------------------------------------------------------------------
(* get_reconnect_delay, line 77: twice min(RECONNECT_DELAY_MAX,            *)
(* RECONNECT_DELAY_MIN * 2 ** (attempts - 1)), for attempts >= 0           *)

BaseDelay2(attempts) ==
    Min(2 * RECONNECT_DELAY_MAX, RECONNECT_DELAY_MIN * Pow2(attempts))

----------------------------------------------------------------------------
Init ==
    /\ pc = "l146"
    /\ reconnecting = FALSE
    /\ RECONNECT_ATTEMPTS = 0
    /\ MAX_RECONNECT_ATTEMPTS \in MaxAttemptsConfigs
    /\ last_occupancy_state = None
    /\ last_activity_time = None
    /\ tmp = 0
    /\ delay = 0
    /\ connected = FALSE
    /\ subscribed = FALSE
    /\ loop_running = TRUE
    /\ auto_pending = FALSE
    /\ manual_pending = FALSE
    /\ events = <<>>
    /\ idle = 0
    /\ exit_msg = None
    /\ readings = <<>>
    /\ heartbeats = 0
    /\ now = 0
    /\ stamps = <<>>

----------------------------------------------------------------------------
(* The network thread *)

\* loop_forever of the network thread: with no session and no attempt to
\* serve, it connects (the first connect of connect_async, and the
\* automatic reconnect that reconnect_delay_set configures).
AutoConnect ==
    /\ UNCHANGED <<exit_msg, readings, heartbeats, now, stamps>>
    /\ loop_running
    /\ ~connected /\ ~auto_pending /\ ~manual_pending
    /\ auto_pending' = TRUE
    /\ UNCHANGED <<mainVars, globalVars, connected, subscribed, loop_running,
                   manual_pending, events, idle>>

\* an attempt ends without an acknowledgement (the broker is unreachable)
AttemptLost ==
    /\ UNCHANGED <<exit_msg, readings, heartbeats, now, stamps>>
    /\ loop_running
    /\ \/ auto_pending /\ auto_pending' = FALSE /\ UNCHANGED manual_pending
       \/ manual_pending /\ manual_pending' = FALSE /\ UNCHANGED auto_pending
    /\ UNCHANGED <<mainVars, globalVars, connected, subscribed, loop_running,
                   events, idle>>

\* client.subscribe called only on the first connection
OnConnectSubscribesFirstOnly(rc) == rc = 0 /\ ~reconnecting

\* the globals after on_connect(rc)
OnConnectReconnecting(rc) == IF rc = 0 /\ reconnecting THEN FALSE ELSE reconnecting
OnConnectAttempts(rc) ==
    IF rc = 0 /\ reconnecting THEN 0 ELSE RECONNECT_ATTEMPTS
OnConnectSubscribes(rc) == rc = 0

on_connect(rc) ==
    /\ UNCHANGED <<exit_msg, readings, heartbeats, now, stamps>>
    /\ loop_running
    /\ \/ auto_pending /\ auto_pending' = FALSE /\ UNCHANGED manual_pending
       \/ manual_pending /\ manual_pending' = FALSE /\ UNCHANGED auto_pending
    /\ connected' = (IF rc = 0 THEN TRUE ELSE connected)
    /\ subscribed' = (IF OnConnectSubscribes(rc) THEN TRUE ELSE subscribed)
    /\ reconnecting' = OnConnectReconnecting(rc)
    /\ RECONNECT_ATTEMPTS' = OnConnectAttempts(rc)
    /\ idle' = 0
    /\ UNCHANGED <<mainVars, MAX_RECONNECT_ATTEMPTS, last_occupancy_state,
                   last_activity_time, loop_running, events>>

OnDisconnectReconnecting(rc) == IF rc /= 0 THEN TRUE ELSE reconnecting

on_disconnect(rc) ==
    /\ UNCHANGED <<exit_msg, readings, heartbeats, now, stamps>>
    /\ loop_running
    /\ connected
    /\ connected' = FALSE
    /\ subscribed' = FALSE
    /\ reconnecting' = OnDisconnectReconnecting(rc)
    /\ idle' = 0
    /\ UNCHANGED <<mainVars, RECONNECT_ATTEMPTS, MAX_RECONNECT_ATTEMPTS,
                   last_occupancy_state, last_activity_time, loop_running,
                   auto_pending, manual_pending, events>>

\* on_message without the assignment of line 99
OnMessageStateNotStored(p) == last_occupancy_state

OnMessageState(p) ==
    IF Reports(p, last_occupancy_state) THEN p.occupancy ELSE last_occupancy_state
\* on_message printing every occupancy it reads, without line 96's comparison
OnMessageEventsEveryReading(p) ==
    IF p.kind = "occ" THEN Append(events, StateText(p.occupancy)) ELSE events

OnMessageEvents(p) ==
    IF Reports(p, last_occupancy_state)
    THEN Append(events, StateText(p.occupancy))
    ELSE events

\* The history of the input: the valid readings handled so far.  It is
\* given up (Untracked) once a payload carries an occupancy that is no
\* boolean, or once MaxReadings readings are recorded.
OnMessageReadings(p) ==
    IF p.kind /= "occ" THEN readings
    ELSE IF /\ p.occupancy \in {"True", "False"}
            /\ readings /= Untracked
            /\ Len(readings) < MaxReadings
         THEN Append(readings, p.occupancy)
         ELSE Untracked

\* line 98: the timestamp printed with a report
OnMessageStamps(p) ==
    IF Reports(p, last_occupancy_state)
    THEN Append(stamps, get_timestamp(now))
    ELSE stamps

\* on_message taking a message for a sign of life and resetting the counter
OnMessageAttemptsReset(p) == 0

\* on_message declares only last_occupancy_state global (line 85): the
\* retry counter after it has handled p
OnMessageAttempts(p) == RECONNECT_ATTEMPTS

on_message(p) ==
    /\ UNCHANGED <<exit_msg, heartbeats, now>>
    /\ readings' = OnMessageReadings(p)
    /\ stamps' = OnMessageStamps(p)
    /\ loop_running
    /\ connected /\ subscribed
    /\ Reports(p, last_occupancy_state) => Len(events) < MaxEvents
    /\ last_occupancy_state' = OnMessageState(p)
    /\ events' = OnMessageEvents(p)
    /\ idle' = 0
    /\ RECONNECT_ATTEMPTS' = OnMessageAttempts(p)
    /\ UNCHANGED <<mainVars, reconnecting, MAX_RECONNECT_ATTEMPTS,
                   last_activity_time, clientVars>>

----------------------------------------------------------------------------
(* The main thread: the supervisory loop of main(), lines 143-178 *)

LoopPcs == {"l146", "l146b", "l148", "l74", "l74s", "l77", "l154", "l157", "l162"}

\* line 146, left operand: reconnecting
CheckReconnecting ==
    /\ UNCHANGED <<exit_msg, readings, heartbeats, now, stamps>>
    /\ pc = "l146"
    /\ pc' = (IF reconnecting THEN "l146b" ELSE "l162")
    /\ UNCHANGED <<tmp, delay, globalVars, clientVars, events, idle>>

\* the check of line 146 with the negation dropped
NeedsReconnectInverted(isConnected) == isConnected

\* line 146, right operand: not client.is_connected()
NeedsReconnect(isConnected) == ~isConnected

CheckConnected ==
    /\ UNCHANGED <<exit_msg, readings, heartbeats, now, stamps>>
    /\ pc = "l146b"
    /\ pc' = (IF NeedsReconnect(connected) THEN "l148" ELSE "l162")
    /\ UNCHANGED <<tmp, delay, globalVars, clientVars, events, idle>>

\* the check of line 148 with > for >=, with the sign test reversed, and
\* with 0 taken for a budget
BudgetExhaustedOffByOne(max, attempts) == max > 0 /\ attempts > max
BudgetExhaustedZeroIsBudget(max, attempts) == max >= 0 /\ attempts >= max
BudgetExhaustedSignBug(max, attempts) == max < 0 /\ attempts >= max

\* line 148
BudgetExhausted(max, attempts) == max > 0 /\ attempts >= max

CheckBudget ==
    /\ pc = "l148"
    /\ pc' = (IF BudgetExhausted(MAX_RECONNECT_ATTEMPTS, RECONNECT_ATTEMPTS)
              THEN "l175" ELSE "l74")
    /\ exit_msg' = (IF BudgetExhausted(MAX_RECONNECT_ATTEMPTS, RECONNECT_ATTEMPTS)
                    THEN "Maximum reconnection attempts reached" ELSE exit_msg)
    /\ UNCHANGED <<readings, heartbeats, now, stamps>>
    /\ UNCHANGED <<tmp, delay, globalVars, clientVars, events, idle>>

\* line 74, RECONNECT_ATTEMPTS += 1: the load
LoadAttempts ==
    /\ UNCHANGED <<exit_msg, readings, heartbeats, now, stamps>>
    /\ pc = "l74"
    /\ RECONNECT_ATTEMPTS < MaxAttempts
    /\ tmp' = RECONNECT_ATTEMPTS
    /\ pc' = "l74s"
    /\ UNCHANGED <<delay, globalVars, clientVars, events, idle>>

\* line 74, RECONNECT_ATTEMPTS += 1: the store
StoreAttempts ==
    /\ UNCHANGED <<exit_msg, readings, heartbeats, now, stamps>>
    /\ pc = "l74s"
    /\ RECONNECT_ATTEMPTS' = tmp + 1
    /\ tmp' = 0
    /\ pc' = "l77"
    /\ UNCHANGED <<delay, reconnecting, MAX_RECONNECT_ATTEMPTS,
                   last_occupancy_state, last_activity_time, clientVars,
                   events, idle>>

\* line 77
ComputeDelay ==
    /\ UNCHANGED <<exit_msg, readings, heartbeats, now, stamps>>
    /\ pc = "l77"
    /\ delay' = BaseDelay2(RECONNECT_ATTEMPTS)
    /\ pc' = "l154"
    /\ UNCHANGED <<tmp, globalVars, clientVars, events, idle>>

\* line 154, time.sleep(delay)
BackoffSleep ==
    /\ UNCHANGED <<exit_msg, readings, heartbeats, now, stamps>>
    /\ pc = "l154"
    /\ delay' = 0
    /\ pc' = "l157"
    /\ UNCHANGED <<tmp, globalVars, clientVars, events, idle>>

\* lines 156-159, client.reconnect(): the session is dropped and a new
\* attempt is started, or the call raises and the exception is caught
Reconnect ==
    /\ UNCHANGED <<exit_msg, readings, heartbeats, now, stamps>>
    /\ pc = "l157"
    /\ \/ /\ manual_pending' = TRUE
          /\ connected' = FALSE
          /\ subscribed' = FALSE
          /\ idle' = 0
       \/ UNCHANGED <<manual_pending, connected, subscribed, idle>>
    /\ pc' = "l162"
    /\ UNCHANGED <<tmp, delay, globalVars, loop_running, auto_pending, events>>

\* line 162, time.sleep(1)
LoopSleep ==
    /\ UNCHANGED <<exit_msg, readings, heartbeats, now, stamps>>
    /\ pc = "l162"
    /\ pc' = "l146"
    /\ UNCHANGED <<tmp, delay, globalVars, clientVars, events, idle>>

\* a KeyboardInterrupt swallowed around time.sleep(delay)
InterruptSwallowedInSleep(at) == IF at = "l154" THEN "l157" ELSE "l175"

\* lines 164-166: where a KeyboardInterrupt raised at position `at` of the
\* loop leaves the main thread (break, then the finally clause)
InterruptExit(at) == "l175"

\* lines 164-166: KeyboardInterrupt anywhere in the loop
KeyboardInterrupt ==
    /\ pc \in LoopPcs
    /\ pc' = InterruptExit(pc)
    /\ exit_msg' = "Script terminated by user"
    /\ UNCHANGED <<readings, heartbeats, now, stamps>>
    /\ tmp' = 0
    /\ UNCHANGED <<delay, globalVars, clientVars, events, idle>>

\* line 175, client.loop_stop()
LoopStop ==
    /\ UNCHANGED <<exit_msg, readings, heartbeats, now, stamps>>
    /\ pc = "l175"
    /\ loop_running' = FALSE
    /\ pc' = "l176"
    /\ UNCHANGED <<tmp, delay, globalVars, connected, subscribed, auto_pending,
                   manual_pending, events, idle>>

\* lines 176-178, client.disconnect() of a connected session; on_disconnect
\* is called with rc = 0 and changes no global
FinalDisconnect ==
    /\ UNCHANGED <<exit_msg, readings, heartbeats, now, stamps>>
    /\ pc = "l176"
    /\ connected' = FALSE
    /\ subscribed' = FALSE
    /\ auto_pending' = FALSE
    /\ manual_pending' = FALSE
    /\ idle' = 0
    /\ pc' = "done"
    /\ UNCHANGED <<tmp, delay, globalVars, loop_running, events>>

MainStep ==
    \/ CheckReconnecting
    \/ CheckConnected
    \/ CheckBudget
    \/ LoadAttempts
    \/ StoreAttempts
    \/ ComputeDelay
    \/ BackoffSleep
    \/ Reconnect
    \/ LoopSleep
    \/ LoopStop
    \/ FinalDisconnect

NetworkStep ==
    \/ AutoConnect
    \/ AttemptLost
    \/ \E rc \in ReturnCodes : on_connect(rc)
    \/ \E rc \in ReturnCodes : on_disconnect(rc)
    \/ \E p \in Payloads : on_message(p)

Next == MainStep \/ NetworkStep \/ KeyboardInterrupt

Spec == Init /\ [][Next]_vars

\* the main thread keeps running
FairSpec == Spec /\ WF_vars(MainStep)

----------------------------------------------------------------------------
(* Wall-clock time.  No statement of the program reads a clock or          *)
(* last_activity_time, so time passes independently of its steps: Tick     *)
(* lets TickSeconds seconds pass in which the broker sends nothing to the  *)
(* connected session.                                                      *)

Stale == idle > MAX_INACTIVE_TIME

Tick ==
    /\ UNCHANGED <<exit_msg, readings, heartbeats, now, stamps>>
    /\ connected
    /\ ~Stale
    /\ idle' = idle + TickSeconds
    /\ UNCHANGED <<mainVars, globalVars, clientVars, events>>

\* the program as shipped: MAX_RECONNECT_ATTEMPTS = -1
TimeInit == Init /\ MAX_RECONNECT_ATTEMPTS = DefaultMaxAttempts

TimeNext == Next \/ Tick

TimeSpec == TimeInit /\ [][TimeNext]_vars

\* The clock that get_timestamp reads advances by half a second, up to
\* MaxClock half seconds.  Only StampSpec follows this clock; Spec and
\* TimeSpec leave now at its initial reading.
ClockTick ==
    /\ now < MaxClock
    /\ now' = now + 1
    /\ UNCHANGED <<mainVars, globalVars, clientVars, events, idle, exit_msg,
                   readings, heartbeats, stamps>>

StampNext == Next \/ ClockTick

StampSpec == TimeInit /\ [][StampNext]_vars

----------------------------------------------------------------------------
(* Claims *)

Running == pc \in LoopPcs

ValidReading(p) == p.kind = "occ" /\ p.occupancy \in {"True", "False"}
Malformed(p) == ~ValidReading(p)

\* C1: the occupancy reports never contain two consecutive reports with
\* the same occupied value.
C1_EventsAlternate ==
    \A i \in 1..(Len(events) - 1) : events[i] /= events[i + 1]

\* C2: handling a malformed payload emits no occupancy report and leaves
\* last_occupancy_state unchanged.
C2_MalformedIsIgnored ==
    [][\A p \in Payloads :
          (Malformed(p) /\ on_message(p)) =>
              (events' = events /\ last_occupancy_state' = last_occupancy_state)]_vars

\* C3: immediately after on_connect with rc = 0 the retry counter is 0.
C3_CounterZeroAfterConnect ==
    [][on_connect(0) => RECONNECT_ATTEMPTS' = 0]_vars

\* C4: at most one connection attempt is in flight at any time.
C4_OneAttemptInFlight == ~(auto_pending /\ manual_pending)

\* C5: after an unexpected disconnect (reconnecting set, session not
\* connected), unless the loop has ended (shutdown, exhausted budget), the
\* session is connected again or the counter has reached the model's bound
\* MaxAttempts, the supervisory loop reaches the backoff sleep with a delay
\* computed by get_reconnect_delay, and after the sleep issues the reconnect.
C5_DisconnectLeadsToReconnect ==
    /\ (reconnecting /\ ~connected /\ Running)
          ~> \/ pc = "l154" /\ \E n \in 0..MaxAttempts : delay = BaseDelay2(n)
             \/ connected
             \/ ~Running
             \/ RECONNECT_ATTEMPTS >= MaxAttempts
    /\ (pc = "l154") ~> (pc = "l157" \/ ~Running)
    /\ (pc = "l157") ~> (pc = "l162" \/ ~Running)

C5_Witness ==
    /\ reconnecting /\ ~connected
    /\ manual_pending
    /\ pc = "l162"
    /\ RECONNECT_ATTEMPTS >= 2

\* C6: every handshake failure (on_connect with rc /= 0) puts the system on
\* the reconnecting path.
C6_HandshakeFailureReconnects ==
    [][(\E rc \in ReturnCodes \ {0} : on_connect(rc)) => reconnecting']_vars

\* C7: when the supervisory loop evaluates its check while the connected
\* session has been silent for more than MAX_INACTIVE_TIME, it takes the
\* reconnect path.
C7_StaleSessionReconnects ==
    [][(connected /\ Stale /\ (CheckReconnecting \/ CheckConnected))
          => pc' /= "l162"]_vars

\* C8: the base delay slept before a reconnect attempt is never below
\* RECONNECT_DELAY_MIN and never above RECONNECT_DELAY_MAX.
C8_DelayWithinBounds ==
    pc = "l154" =>
        /\ delay >= 2 * RECONNECT_DELAY_MIN
        /\ delay <= 2 * RECONNECT_DELAY_MAX

\* C9: with a positive MAX_RECONNECT_ATTEMPTS, if from some time on the
\* session stays disconnected after an unexpected disconnect, the main
\* thread reaches the end of main(); once the loop has ended no manual
\* attempt is started, and once main() has ended no attempt of any kind.
C9_ExhaustedBudgetTerminates ==
    /\ <>[](MAX_RECONNECT_ATTEMPTS > 0 /\ reconnecting /\ ~connected)
          => <>(pc = "done")
    /\ [][/\ ~Running => (manual_pending' => manual_pending)
          /\ pc = "done" => (auto_pending' => auto_pending)]_vars

C9_Witness ==
    /\ MAX_RECONNECT_ATTEMPTS > 0
    /\ RECONNECT_ATTEMPTS = MAX_RECONNECT_ATTEMPTS
    /\ reconnecting /\ ~connected
    /\ pc = "done"

\* C10: the retry counter is never negative and, with a positive
\* MAX_RECONNECT_ATTEMPTS, never above it.
C10_CounterWithinBudget ==
    /\ RECONNECT_ATTEMPTS >= 0
    /\ MAX_RECONNECT_ATTEMPTS > 0 => RECONNECT_ATTEMPTS <= MAX_RECONNECT_ATTEMPTS

C10_Witness ==
    /\ MAX_RECONNECT_ATTEMPTS > 0
    /\ RECONNECT_ATTEMPTS = MAX_RECONNECT_ATTEMPTS
    /\ pc = "l157"

\* C11: with MAX_RECONNECT_ATTEMPTS 0 or negative the supervisory loop is
\* never left because of the number of attempts, whatever the counter is.
C11_UnboundedBudgetNeverExits ==
    MAX_RECONNECT_ATTEMPTS <= 0 => exit_msg /= "Maximum reconnection attempts reached"

C11_Witness ==
    /\ MAX_RECONNECT_ATTEMPTS <= 0
    /\ RECONNECT_ATTEMPTS >= MaxAttempts
    /\ pc = "l74"

\* C12: a KeyboardInterrupt ends the loop for good, also when it arrives in
\* the backoff sleep (the pending client.reconnect() is not executed); from
\* then on client.reconnect() starts no attempt, and when main() has ended
\* the session is closed and no attempt of any kind starts.
C12_ShutdownEndsReconnecting ==
    /\ [](exit_msg = "Script terminated by user" => ~Running)
    /\ [](pc = "done" => ~connected /\ ~subscribed)
    /\ [][/\ ~Running => (manual_pending' => manual_pending)
          /\ pc = "done" => (auto_pending' => auto_pending)]_vars

\* interrupted in the backoff sleep (delay is only set during it), main()
\* has ended
C12_Witness ==
    /\ exit_msg = "Script terminated by user"
    /\ delay > 0
    /\ pc = "done"

RECURSIVE Dedup(_)
\* s with consecutive duplicates removed
Dedup(s) ==
    IF Len(s) <= 1 THEN s
    ELSE IF s[1] = s[2] THEN Dedup(Tail(s))
    ELSE <<s[1]>> \o Dedup(Tail(s))

Texts(s) == [i \in 1..Len(s) |-> StateText(s[i])]

Tracked == readings /= Untracked

\* C13: the first valid reading handled after startup emits a report, for
\* the value true and for the value false.
C13_FirstReadingReports ==
    (Tracked /\ Len(readings) >= 1) =>
        /\ Len(events) >= 1
        /\ events[1] = StateText(readings[1])

C13_Witness ==
    /\ readings = <<"False">>
    /\ events = <<"NO PRESENCE">>
    /\ last_occupancy_state = "False"

\* C14: as long as only valid boolean readings were handled, the reports
\* are the readings with consecutive duplicates removed, in arrival order.
C14_ReportsAreDedupedReadings ==
    Tracked => events = Texts(Dedup(readings))

C14_Witness ==
    /\ readings = <<"True", "True", "False", "False", "True">>
    /\ events = <<"PRESENCE DETECTED", "NO PRESENCE", "PRESENCE DETECTED">>

\* C15: the timestamps of successive reports are strictly increasing.
C15_StampsIncrease ==
    \A i \in 1..(Len(stamps) - 1) : stamps[i] < stamps[i + 1]

\* C16: a valid reading handled in a state whose last_occupancy_state
\* differs from it (by the != of line 96) or is unknown emits one report and
\* becomes the state; the same reading handled again emits nothing and
\* leaves last_occupancy_state unchanged.
C16_SameReadingTwiceReportsOnce ==
    [][\A p \in Payloads :
          (ValidReading(p) /\ on_message(p)) =>
              /\ PyNotEqual(p.occupancy, last_occupancy_state) =>
                    /\ events' = Append(events, StateText(p.occupancy))
                    /\ last_occupancy_state' = p.occupancy
              /\ last_occupancy_state = p.occupancy =>
                    /\ events' = events
                    /\ last_occupancy_state' = last_occupancy_state]_vars

C16_Witness ==
    /\ readings = <<"True", "True">>
    /\ events = <<"PRESENCE DETECTED">>
    /\ last_occupancy_state = "True"

\* C17: while the monitor runs, a heartbeat is published every
\* HEARTBEAT_INTERVAL seconds: once that long has passed, one has been.
C17_HeartbeatPublished ==
    (Running /\ idle >= HEARTBEAT_INTERVAL) => heartbeats > 0

\* C18: a connected session is subscribed to the sensor topic, on_connect
\* with rc = 0 subscribes, and on_connect with rc /= 0 does not.
C18_ConnectedIsSubscribed ==
    /\ [](connected => subscribed)
    /\ [][/\ on_connect(0) => subscribed'
          /\ (\E rc \in ReturnCodes \ {0} : on_connect(rc))
                => subscribed' = subscribed]_vars

\* connected again after an unexpected disconnect that main() had noticed
C18_Witness ==
    /\ connected /\ subscribed
    /\ ~reconnecting
    /\ pc = "l154"

\* C19: handling a message, valid or not, changes neither the connection
\* state nor the reconnecting flag nor the retry counter.
C19_MessageLeavesSessionAlone ==
    [][(\E p \in Payloads : on_message(p)) =>
          UNCHANGED <<connected, subscribed, auto_pending, manual_pending,
                      loop_running, reconnecting, RECONNECT_ATTEMPTS,
                      MAX_RECONNECT_ATTEMPTS, last_activity_time,
                      mainVars>>]_vars

\* a report printed while the counter is not 0
C19_Witness ==
    /\ connected
    /\ RECONNECT_ATTEMPTS > 0
    /\ Len(events) = 1
    /\ readings = <<"True">>
    /\ pc = "l77"

\* C20: client.reconnect() is called only while the session is not
\* connected.
C20_ReconnectOnlyWhenDisconnected ==
    [][Reconnect => ~connected]_vars

====
